---- MODULE Spec2Model ----
(***************************************************************************)
(* Model of user_profile_manager.py: the ValidatedProperty descriptor, the *)
(* UserProfileManager entity with its three validated fields, and the      *)
(* class-level WeakValueDictionary keyed by id(instance).                  *)
(*                                                                         *)
(* Python values are records [type, s, n]: a str carries its characters in *)
(* s (a tuple of one-character strings), an int or a datetime carries a    *)
(* number in n.  A datetime is kept at day resolution, n = yyyymmdd.       *)
(***************************************************************************)
EXTENDS Integers, Sequences, FiniteSets, TLC

\* Number of distinct readings the system clock can give.
MaxClock == 1

\* The addresses the allocator hands out, which are the values of id(): a
\* freed address is handed out again.
Tokens == {1, 2}

---------------------------------------------------------------------------
\* Python values

None == [type |-> "NoneType", s |-> <<>>, n |-> 0]
Str(chars) == [type |-> "str", s |-> chars, n |-> 0]
PyInt(k) == [type |-> "int", s |-> <<>>, n |-> k]
datetime(y, m, d) == [type |-> "datetime", s |-> <<>>, n |-> y * 10000 + m * 100 + d]
\* A reference to the profile object living at address t.
Ref(t) == [type |-> "UserProfileManager", s |-> <<>>, n |-> t]

\* id(instance): the address of the object.
id(obj) == obj.n

\* isinstance(v, str) / isinstance(v, datetime)
IsStr(v) == v.type = "str"
IsDatetime(v) == v.type = "datetime"

Lower == {"a", "b", "c", "d", "e", "f", "g", "h", "i", "j", "k", "l", "m",
          "n", "o", "p", "q", "r", "s", "t", "u", "v", "w", "x", "y", "z"}
Upper == {"A", "B", "C", "D", "E", "F", "G", "H", "I", "J", "K", "L", "M",
          "N", "O", "P", "Q", "R", "S", "T", "U", "V", "W", "X", "Y", "Z"}
Digits == {"0", "1", "2", "3", "4", "5", "6", "7", "8", "9"}
Whitespace == {" ", "\t", "\n", "\r", "\f"}

\* str.strip(): drop leading, then trailing, whitespace.
RECURSIVE lstrip(_)
lstrip(s) == IF s # <<>> /\ Head(s) \in Whitespace THEN lstrip(Tail(s)) ELSE s

RECURSIVE rstrip(_)
rstrip(s) ==
  IF s # <<>> /\ s[Len(s)] \in Whitespace THEN rstrip(SubSeq(s, 1, Len(s) - 1)) ELSE s

strip(s) == rstrip(lstrip(s))

\* bool(x) of a str: non-empty.
bool(s) == Len(s) > 0

---------------------------------------------------------------------------
\* The validators

\* Variant: emptiness tested without strip().
validate_username_nostrip(username) == IsStr(username) /\ bool(username.s)

validate_username(username) == IsStr(username) /\ bool(strip(username.s))

\* The character classes of the email pattern.
LocalClass == Lower \cup Upper \cup Digits \cup {".", "_", "%", "+", "-"}
DomainClass == Lower \cup Upper \cup Digits \cup {".", "-"}
TldClass == Lower \cup Upper

AllIn(s, lo, hi, class) == \A k \in lo..hi : s[k] \in class

\* re.match(r'^[a-zA-Z0-9._%+-]+@[a-zA-Z0-9.-]+\.[a-zA-Z]{2,}$', s):
\* some split of s into local part, "@", domain, ".", tld fits the classes.
\* "$" matches at the very end and also just before one final newline.
re_match(s) ==
  \E end \in {Len(s)} \cup {k \in {Len(s) - 1} : k >= 0 /\ s[Len(s)] = "\n"} :
    \E at \in 2..end : \E dot \in (at + 2)..end :
      /\ s[at] = "@"
      /\ s[dot] = "."
      /\ AllIn(s, 1, at - 1, LocalClass)
      /\ AllIn(s, at + 1, dot - 1, DomainClass)
      /\ end - dot >= 2
      /\ AllIn(s, dot + 1, end, TldClass)

validate_email(email) ==
  IF ~IsStr(email) THEN FALSE ELSE re_match(email.s)

validate_last_login(date) == date = None \/ IsDatetime(date)

---------------------------------------------------------------------------
\* Rendering of values, as str() / f-string interpolation produce it

DigitSeq == <<"0", "1", "2", "3", "4", "5", "6", "7", "8", "9">>

RECURSIVE Decimal(_)
Decimal(k) ==
  IF k < 10 THEN <<DigitSeq[k + 1]>> ELSE Decimal(k \div 10) \o <<DigitSeq[(k % 10) + 1]>>

RECURSIVE ZeroPad(_, _)
ZeroPad(s, width) == IF Len(s) >= width THEN s ELSE ZeroPad(<<"0">> \o s, width)

\* str(v): a str is itself, None is "None", an int its decimal digits, a
\* datetime "YYYY-MM-DD 00:00:00".
str(v) ==
  CASE v.type = "str" -> v.s
    [] v.type = "NoneType" -> <<"N", "o", "n", "e">>
    [] v.type = "int" -> Decimal(v.n)
    [] v.type = "datetime" ->
         ZeroPad(Decimal(v.n \div 10000), 4) \o <<"-">>
           \o ZeroPad(Decimal((v.n \div 100) % 100), 2) \o <<"-">>
           \o ZeroPad(Decimal(v.n % 100), 2)
           \o <<" ", "0", "0", ":", "0", "0", ":", "0", "0">>

\* The attribute names, as dictionary keys and as the characters of the name.
Fields == {"username", "email", "last_login"}

NameChars(name) ==
  CASE name = "username" -> <<"u", "s", "e", "r", "n", "a", "m", "e">>
    [] name = "email" -> <<"e", "m", "a", "i", "l">>
    [] name = "last_login" -> <<"l", "a", "s", "t", "_", "l", "o", "g", "i", "n">>

---------------------------------------------------------------------------
\* ValidatedProperty

\* The validator each descriptor was built with (class body, lines 126-128).
validator(name, value) ==
  CASE name = "username" -> validate_username(value)
    [] name = "email" -> validate_email(value)
    [] name = "last_login" -> validate_last_login(value)

\* __get__: instance.__dict__.get(self.name)
get(d, name) == IF name \in DOMAIN d THEN d[name] ELSE None

\* Variant: the validator's verdict is ignored.
set_raises_never(name, value) == FALSE

\* __set__ raises exactly when the validator rejects the value.
set_raises(name, value) == ~validator(name, value)

\* The ValueError message: f"Invalid value for {self.name}: {value}"
ErrorMessage(name, value) ==
  <<"I", "n", "v", "a", "l", "i", "d", " ", "v", "a", "l", "u", "e", " ", "f", "o", "r", " ">>
    \o NameChars(name) \o <<":", " ">> \o str(value)

\* Variant: the value is stored before it is validated.
set_store_first(d, name, value) ==
  [k \in DOMAIN d \cup {name} |-> IF k = name THEN value ELSE d[k]]

\* Variant: every descriptor stores under the first descriptor's name.
set_one_name(d, name, value) ==
  IF set_raises(name, value)
  THEN d
  ELSE [k \in DOMAIN d \cup {"username"} |-> IF k = "username" THEN value ELSE d[k]]

\* __set__: instance.__dict__[self.name] = value, after validation.
set(d, name, value) ==
  IF set_raises(name, value)
  THEN d
  ELSE [k \in DOMAIN d \cup {name} |-> IF k = name THEN value ELSE d[k]]

---------------------------------------------------------------------------
\* UserProfileManager

default_last_login == datetime(2000, 1, 1)

\* __init__: three private attributes set to None; the descriptors' own
\* keys ("username", "email", "last_login") are not in __dict__ yet.
InitDict == [k \in {"_username", "_email", "_last_login"} |-> None]

\* The __dict__ of an address that holds no object.
NoDict == [k \in {} |-> None]

\* Variant: the default is used only when the key is missing.
last_login_with_default_key(d) ==
  IF "last_login" \in DOMAIN d THEN d["last_login"] ELSE default_last_login

\* last_login_with_default
last_login_with_default(d) ==
  IF get(d, "last_login") # None THEN get(d, "last_login") ELSE default_last_login

\* Variant: last_login is rendered through last_login_with_default.
render_default(d) ==
  <<"U", "s", "e", "r", "P", "r", "o", "f", "i", "l", "e", "(",
    "u", "s", "e", "r", "n", "a", "m", "e", "=">> \o str(get(d, "username"))
    \o <<",", " ", "e", "m", "a", "i", "l", "=">> \o str(get(d, "email"))
    \o <<",", " ", "l", "a", "s", "t", "_", "l", "o", "g", "i", "n", "=">>
    \o str(last_login_with_default(d)) \o <<")">>

\* __str__
render(d) ==
  <<"U", "s", "e", "r", "P", "r", "o", "f", "i", "l", "e", "(",
    "u", "s", "e", "r", "n", "a", "m", "e", "=">> \o str(get(d, "username"))
    \o <<",", " ", "e", "m", "a", "i", "l", "=">> \o str(get(d, "email"))
    \o <<",", " ", "l", "a", "s", "t", "_", "l", "o", "g", "i", "n", "=">>
    \o str(get(d, "last_login")) \o <<")">>

\* Variant: the argument is assigned as it is, None included.
update_value_as_given(new_time, now) == new_time

\* What update_last_login assigns: new_time if new_time is not None else now.
update_value(new_time, now) == IF new_time # None THEN new_time ELSE now

---------------------------------------------------------------------------
\* Inputs

Alice == Str(<<"a", "l", "i", "c", "e">>)
Blank == Str(<<" ", " ">>)
NotAnEmail == Str(<<"n", "o", "t", "-", "a", "n", "-", "e", "m", "a", "i", "l">>)
AliceEmail ==
  Str(<<"a", "l", "i", "c", "e", "@", "e", "x", "a", "m", "p", "l", "e", ".", "c", "o", "m">>)
\* Accepted by the email pattern: "$" also matches before a final newline.
NewlineEmail == Str(<<"b", "@", "c", ".", "d", "e", "\n">>)
SomeTime == datetime(2024, 5, 17)

\* Values a caller assigns to each field: valid ones and rejected ones.
Inputs(name) ==
  CASE name = "username" -> {Alice, Blank, PyInt(42)}
    [] name = "email" -> {NotAnEmail, AliceEmail, NewlineEmail, None}
    [] name = "last_login" -> {None, SomeTime, Alice}

\* Arguments of update_last_login; None is also the omitted argument.
UpdateInputs == {None, SomeTime, Alice}

\* Readings of datetime.now().
Clock == {datetime(2026, 11, c) : c \in 1..MaxClock}

\* Keys passed to get_from_cache: every address, and 0, which is never one.
Uids == Tokens \cup {0}

---------------------------------------------------------------------------
\* State

VARIABLES
  alive,       \* alive[t]: a profile object exists at address t
  held,        \* held[t]: the program holds a strong reference to it
  dict,        \* dict[t]: the instance __dict__ of the object at t
  cache,       \* UserProfileManager._instance_cache: key -> referent
  registered,  \* history: the object now at t was passed to add_to_cache
  retired,     \* history (CacheSpec): a profile registered under key t was collected
  scen,        \* history: how far the object at t has followed the scenario
  last         \* the last call: operation, arguments, result or exception

vars == <<alive, held, dict, cache, registered, retired, scen, last>>

\* The record of a call.  self is the address of the receiver (0: none).
Call(op, self, name, arg, ret, raised, msg) ==
  [op |-> op, self |-> self, name |-> name, arg |-> arg, ret |-> ret,
   raised |-> raised, msg |-> msg]

Returned(op, self, name, arg, ret) == Call(op, self, name, arg, ret, FALSE, <<>>)

\* Progress along: construct, username = "alice" (accepted), email =
\* "not-an-email" (rejected), email = "alice@example.com" (accepted), str().
\* -1 once the object's history has left that sequence.
ScenStep(cur, op, name, arg, raised) ==
  CASE cur = 0 /\ op = "set" /\ name = "username" /\ arg = Alice /\ ~raised -> 1
    [] cur = 1 /\ op = "set" /\ name = "email" /\ arg = NotAnEmail /\ raised -> 2
    [] cur = 2 /\ op = "set" /\ name = "email" /\ arg = AliceEmail /\ ~raised -> 3
    [] cur = 3 /\ op = "str" -> 4
    [] OTHER -> -1

Init ==
  /\ alive = [t \in Tokens |-> FALSE]
  /\ held = [t \in Tokens |-> FALSE]
  /\ dict = [t \in Tokens |-> NoDict]
  /\ cache = [k \in {} |-> Ref(0)]
  /\ registered = [t \in Tokens |-> FALSE]
  /\ retired = [t \in Tokens |-> FALSE]
  /\ scen = [t \in Tokens |-> -1]
  /\ last = Returned("none", 0, "", None, None)

\* UserProfileManager(): the allocator places the new object at any free
\* address; __init__ fills its __dict__.  Nothing is added to the cache.
Construct(t) ==
  /\ ~alive[t]
  /\ alive' = [alive EXCEPT ![t] = TRUE]
  /\ held' = [held EXCEPT ![t] = TRUE]
  /\ dict' = [dict EXCEPT ![t] = InitDict]
  /\ registered' = [registered EXCEPT ![t] = FALSE]
  /\ scen' = [scen EXCEPT ![t] = 0]
  /\ last' = Returned("__init__", t, "", None, Ref(t))
  /\ UNCHANGED <<cache, retired>>

\* p.<name> = value, through ValidatedProperty.__set__.
SetAttr(t, name, value) ==
  /\ held[t]
  /\ dict' = [dict EXCEPT ![t] = set(dict[t], name, value)]
  /\ last' = IF set_raises(name, value)
             THEN Call("set", t, name, value, None, TRUE, ErrorMessage(name, value))
             ELSE Returned("set", t, name, value, None)
  /\ scen' = [scen EXCEPT ![t] = ScenStep(scen[t], "set", name, value, set_raises(name, value))]
  /\ UNCHANGED <<alive, held, cache, registered, retired>>

\* p.<name>, through ValidatedProperty.__get__.
GetAttr(t, name) ==
  /\ held[t]
  /\ last' = Returned("get", t, name, None, get(dict[t], name))
  /\ UNCHANGED <<alive, held, dict, cache, registered, retired, scen>>

\* p.update_last_login(new_time): assigns last_login through the descriptor,
\* so a rejected value raises out of update_last_login.
UpdateLastLogin(t, new_time, now) ==
  LET value == update_value(new_time, now) IN
  /\ held[t]
  /\ dict' = [dict EXCEPT ![t] = set(dict[t], "last_login", value)]
  /\ last' = IF set_raises("last_login", value)
             THEN Call("update_last_login", t, "last_login", new_time, None, TRUE,
                       ErrorMessage("last_login", value))
             ELSE Returned("update_last_login", t, "last_login", new_time, None)
  /\ scen' = [scen EXCEPT ![t] = -1]
  /\ UNCHANGED <<alive, held, cache, registered, retired>>

\* p.last_login_with_default
LastLoginWithDefault(t) ==
  /\ held[t]
  /\ last' = Returned("last_login_with_default", t, "", None, last_login_with_default(dict[t]))
  /\ UNCHANGED <<alive, held, dict, cache, registered, retired, scen>>

\* str(p)
Render(t) ==
  /\ held[t]
  /\ last' = Returned("str", t, "", None, Str(render(dict[t])))
  /\ scen' = [scen EXCEPT ![t] = IF scen[t] = 4 THEN 4 ELSE ScenStep(scen[t], "str", "", None, FALSE)]
  /\ UNCHANGED <<alive, held, dict, cache, registered, retired>>

\* The key add_to_cache stores an instance under.
cache_key(instance) == id(instance)

\* UserProfileManager.add_to_cache(p): _instance_cache[id(p)] = p
AddToCache(t) ==
  /\ held[t]
  /\ cache' = [k \in DOMAIN cache \cup {cache_key(Ref(t))} |->
                 IF k = cache_key(Ref(t)) THEN Ref(t) ELSE cache[k]]
  /\ registered' = [registered EXCEPT ![t] = TRUE]
  /\ last' = Returned("add_to_cache", t, "", Ref(t), None)
  /\ UNCHANGED <<alive, held, dict, retired, scen>>

\* _instance_cache.get(uid)
cache_get(c, uid) == IF uid \in DOMAIN c THEN c[uid] ELSE None

\* UserProfileManager.get_from_cache(uid)
GetFromCache(uid) ==
  /\ last' = Returned("get_from_cache", 0, "", PyInt(uid), cache_get(cache, uid))
  /\ UNCHANGED <<alive, held, dict, cache, registered, retired, scen>>

\* Variant: a plain dict, whose entries are strong references.
CacheKeepsAlive_strong(obj) == TRUE

\* Whether a cache entry counts as a strong reference to its referent: a
\* WeakValueDictionary holds its values weakly, so it never does.
CacheKeepsAlive(obj) == FALSE

\* Variant: entries outlive their referent.
purge_nothing(c, obj) == c

\* The weak-reference callback: when the referent dies, its entries go.
purge(c, obj) == [k \in {j \in DOMAIN c : c[j] # obj} |-> c[k]]

\* The program drops its last strong reference to the object at t.  With
\* nothing else holding it the object is collected at once: its address is
\* free again and the cache loses the entries that referred to it.
DropRefs(t) ==
  /\ held[t]
  /\ held' = [held EXCEPT ![t] = FALSE]
  /\ IF CacheKeepsAlive(Ref(t)) /\ \E k \in DOMAIN cache : cache[k] = Ref(t)
     THEN UNCHANGED <<alive, dict, cache, registered, scen>>
     ELSE /\ alive' = [alive EXCEPT ![t] = FALSE]
          /\ dict' = [dict EXCEPT ![t] = NoDict]
          /\ cache' = purge(cache, Ref(t))
          /\ registered' = [registered EXCEPT ![t] = FALSE]
          /\ scen' = [scen EXCEPT ![t] = -1]
  /\ last' = Returned("del", t, "", None, None)

Next ==
  \/ \E t \in Tokens : Construct(t)
  \/ \E t \in Tokens : \E name \in Fields : \E value \in Inputs(name) : SetAttr(t, name, value)
  \/ \E t \in Tokens : \E name \in Fields : GetAttr(t, name)
  \/ \E t \in Tokens : \E new_time \in UpdateInputs : \E now \in Clock :
       UpdateLastLogin(t, new_time, now)
  \/ \E t \in Tokens : LastLoginWithDefault(t)
  \/ \E t \in Tokens : Render(t)
  \/ \E t \in Tokens : AddToCache(t)
  \/ \E uid \in Uids : GetFromCache(uid)
  \/ \E t \in Tokens : DropRefs(t) /\ UNCHANGED retired

Spec == Init /\ [][Next]_vars

\* The cache on its own: profiles are constructed, registered, looked up
\* and collected, and the history of collected registrations is kept.
Retire(t) == retired' = [retired EXCEPT ![t] = @ \/ (registered[t] /\ ~alive'[t])]

CacheNext ==
  \/ \E t \in Tokens : Construct(t)
  \/ \E t \in Tokens : AddToCache(t)
  \/ \E uid \in Uids : GetFromCache(uid)
  \/ \E t \in Tokens : DropRefs(t) /\ Retire(t)

CacheSpec == Init /\ [][CacheNext]_vars

---------------------------------------------------------------------------
\* Properties

\* The receiver's __dict__ holds key k with value v.
Stored(t, k, v) == k \in DOMAIN dict[t] /\ dict[t][k] = v

\* C1: an assignment to a validated field with a value its validator
\* rejects raises, the error names the field and the value, and the
\* receiver's stored values (an absent field included) are as before.
C1_RejectedWriteKeepsValue ==
  [][\A t \in Tokens :
       (last'.op = "set" /\ last'.self = t /\ ~validator(last'.name, last'.arg)) =>
         /\ last'.raised
         /\ last'.msg = ErrorMessage(last'.name, last'.arg)
         /\ dict'[t] = dict[t]]_vars

\* A blank username was just rejected on a profile whose username is "alice"
\* and whose email was never assigned.
C1_Witness ==
  \E t \in Tokens :
    /\ held[t]
    /\ last.op = "set" /\ last.self = t /\ last.name = "username" /\ last.arg = Blank
    /\ last.raised
    /\ last.msg = <<"I", "n", "v", "a", "l", "i", "d", " ", "v", "a", "l", "u", "e", " ",
                    "f", "o", "r", " ", "u", "s", "e", "r", "n", "a", "m", "e", ":", " ",
                    " ", " ">>
    /\ Stored(t, "username", Alice)
    /\ "email" \notin DOMAIN dict[t]

C3_LookupFollowsLifetime ==
  \A t \in Tokens :
    (last.op = "get_from_cache" /\ last.arg = PyInt(t)) =>
      /\ ~last.raised
      /\ (held[t] /\ registered[t]) => last.ret = Ref(t)
      /\ retired[t] => last.ret = None

\* C4 as stated: nothing but a direct assignment raises.
C4_OnlyAssignmentsFail == last.raised => last.op = "set"

\* C4, amended: a call raises exactly when it is a direct assignment of a
\* value the field's validator rejects, or update_last_login with a provided
\* value that is not a datetime.
C4_FailuresAreRejectedWrites ==
  last.raised <=>
    \/ last.op = "set" /\ ~validator(last.name, last.arg)
    \/ last.op = "update_last_login" /\ last.arg # None /\ last.arg.type # "datetime"

\* update_last_login was just called with a str and raised.
C4_Witness ==
  /\ last.op = "update_last_login"
  /\ last.arg = Alice
  /\ last.raised

\* C5: right after update_last_login returns, last_login is the provided
\* datetime, or a clock reading when the argument was None or omitted, and
\* so is never absent or None.
C5_UpdateStoresArgumentOrNow ==
  (last.op = "update_last_login" /\ ~last.raised) =>
    /\ "last_login" \in DOMAIN dict[last.self]
    /\ dict[last.self]["last_login"].type = "datetime"
    /\ last.arg # None => dict[last.self]["last_login"] = last.arg
    /\ last.arg = None => dict[last.self]["last_login"] \in Clock

\* update_last_login() just stored a clock reading.
C5_Witness ==
  /\ last.op = "update_last_login"
  /\ last.arg = None
  /\ ~last.raised
  /\ \E t \in Tokens : last.self = t /\ "last_login" \in DOMAIN dict[t]
                         /\ dict[t]["last_login"] \in Clock

\* C6: last_login_with_default returns the stored last_login when one is set
\* and 2000-01-01 when it is absent or None, and reading it changes neither
\* a profile nor the cache.
C6_DefaultIsReadOnly ==
  [][last'.op = "last_login_with_default" =>
       /\ ~last'.raised
       /\ last'.ret =
            IF /\ "last_login" \in DOMAIN dict[last'.self]
               /\ dict[last'.self]["last_login"] # None
            THEN dict[last'.self]["last_login"]
            ELSE datetime(2000, 1, 1)
       /\ UNCHANGED <<alive, held, dict, cache>>]_vars

\* The default was just read from a profile whose last_login was assigned
\* None explicitly; None is still what is stored.
C6_Witness ==
  \E t \in Tokens :
    /\ last.op = "last_login_with_default" /\ last.self = t
    /\ Stored(t, "last_login", None)
    /\ last.ret = datetime(2000, 1, 1)

\* C7: every cache entry refers to a profile the program still references;
\* an entry appears only through add_to_cache of that profile and goes only
\* when its profile is collected.
C7_CacheTracksReferencedProfiles ==
  [][/\ \A k \in DOMAIN cache' :
          /\ cache'[k].type = "UserProfileManager"
          /\ cache'[k].n \in Tokens
          /\ alive'[cache'[k].n] /\ held'[cache'[k].n]
     /\ \A k \in DOMAIN cache' :
          (k \notin DOMAIN cache \/ cache[k] # cache'[k]) =>
            last'.op = "add_to_cache" /\ last'.arg = cache'[k]
     /\ \A k \in DOMAIN cache \ DOMAIN cache' :
          /\ last'.op = "del"
          /\ last'.self = cache[k].n
          /\ ~alive'[cache[k].n]]_vars

\* A field was just written on a registered profile, whose entry is still
\* there, while the other address holds an unregistered profile.
C7_Witness ==
  \E t \in Tokens : \E u \in Tokens \ {t} :
    /\ DOMAIN cache = {t}
    /\ held[t] /\ held[u]
    /\ last.op = "set" /\ last.self = t /\ ~last.raised

\* The string the scenario ends with.
ScenarioText ==
  <<"U", "s", "e", "r", "P", "r", "o", "f", "i", "l", "e", "(",
    "u", "s", "e", "r", "n", "a", "m", "e", "=", "a", "l", "i", "c", "e", ",", " ",
    "e", "m", "a", "i", "l", "=", "a", "l", "i", "c", "e", "@", "e", "x", "a", "m", "p", "l", "e",
    ".", "c", "o", "m", ",", " ",
    "l", "a", "s", "t", "_", "l", "o", "g", "i", "n", "=", "N", "o", "n", "e", ")">>

\* C8: along the scenario the username is "alice" from the first step on,
\* the email is still absent after "not-an-email" was rejected, and the
\* final rendering is exactly the expected text.
C8_ScenarioRendering ==
  \A t \in Tokens :
    /\ scen[t] >= 1 => Stored(t, "username", Alice)
    /\ scen[t] \in {1, 2} => "email" \notin DOMAIN dict[t]
    /\ scen[t] >= 3 => Stored(t, "email", AliceEmail)
    /\ scen[t] >= 0 => "last_login" \notin DOMAIN dict[t]
    /\ (scen[t] = 4 /\ last.op = "str" /\ last.self = t) =>
         ~last.raised /\ last.ret = Str(ScenarioText)

\* The scenario has just run to its end on some profile.
C8_Witness ==
  \E t \in Tokens :
    /\ scen[t] = 4
    /\ last.op = "str" /\ last.self = t
    /\ last.ret = Str(ScenarioText)

\* C9: get_from_cache(t) returns None, or a live, referenced profile that was
\* itself passed to add_to_cache and whose id is t.
C9_LookupNeverStale ==
  \A uid \in Uids :
    (last.op = "get_from_cache" /\ last.arg = PyInt(uid)) =>
      /\ ~last.raised
      /\ \/ last.ret = None
         \/ /\ last.ret = Ref(uid)
            /\ uid \in Tokens
            /\ alive[uid] /\ held[uid] /\ registered[uid]

\* A registered profile was collected, a new profile that was never
\* registered lives at its address, and a lookup of that id found nothing.
C9_Witness ==
  \E t \in Tokens :
    /\ retired[t]
    /\ held[t] /\ ~registered[t]
    /\ last.op = "get_from_cache" /\ last.arg = PyInt(t)
    /\ last.ret = None

\* C10: an assignment, accepted or rejected, changes at most the assigned
\* field of the receiver: its other attributes, every other profile and the
\* cache stay as they were.
C10_WriteTouchesOneField ==
  [][\A t \in Tokens :
       (last'.op = "set" /\ last'.self = t) =>
         /\ UNCHANGED <<alive, held, cache>>
         /\ \A u \in Tokens \ {t} : dict'[u] = dict[u]
         /\ \A k \in (DOMAIN dict[t] \cup DOMAIN dict'[t]) \ {last'.name} :
              /\ k \in DOMAIN dict[t]
              /\ k \in DOMAIN dict'[t]
              /\ dict'[t][k] = dict[t][k]]_vars

\* An email was just accepted on a profile that already had a username,
\* beside another profile with its own username, with an entry in the cache.
C10_Witness ==
  \E t \in Tokens : \E u \in Tokens \ {t} :
    /\ last.op = "set" /\ last.self = t /\ last.name = "email" /\ ~last.raised
    /\ Stored(t, "username", Alice)
    /\ Stored(t, "email", AliceEmail)
    /\ Stored(u, "username", Alice)
    /\ "email" \notin DOMAIN dict[u]
    /\ DOMAIN cache # {}

====
